---- MODULE Spec2Model ----
(***************************************************************************)
(* Bill reconciliation between a spreadsheet export and QuickBooks.        *)
(*                                                                         *)
(*   main.py         the orchestrator: read, fetch, compare, write back,   *)
(*                   save                                                  *)
(*   comparer.py     compare_bills                                         *)
(*   qb_gateway.py   _send_qbxml, fetch_bills_from_qb, add_bill_to_qb      *)
(*   excel_reader.py read_excel_data                                       *)
(*   models.py       BillRecord, Conflict, ComparisonReport                *)
(*                                                                         *)
(* Text is a TLA+ string, an amount is a number of cents (a float with at  *)
(* most two decimals), a list is a sequence, a dict is a function on its   *)
(* key set, Python's None for a returned record is the empty sequence.     *)
(*                                                                         *)
(* Every text field of a record is a string, as both adapters build it     *)
(* (never None).  The COM calls Dispatch, OpenConnection2, BeginSession    *)
(* and ProcessRequest can each raise; EndSession and CloseConnection do    *)
(* not.  The records of excel_only are the objects of excel_rows: the      *)
(* model updates them in comparison_report, which is all main.py reads     *)
(* after the comparison.  A data row's amount cell is a number, 0 for an   *)
(* empty cell.                                                             *)
(***************************************************************************)
EXTENDS Integers, Sequences, FiniteSets, TLC

VARIABLES
    pc,                 \* position of main.py
    workbook,           \* the spreadsheet: "unreadable", or its data rows
    ledger,             \* the bills the QuickBooks company file holds
    excel_rows,         \* main.py: excel_rows
    qb_bills,           \* main.py: qb_bills
    comparison_report,  \* main.py: comparison_report
    idx,                \* position of the for loop over excel_only
    spc,                \* position inside _send_qbxml
    qbxml,              \* the request _send_qbxml was called with
    open_conns,         \* connections opened and not closed
    sessions,           \* sessions begun and not ended
    com_calls,          \* the COM calls of the current exchange, in order
    pending,            \* exception in flight inside _send_qbxml ("" = none)
    raw_response,       \* what ProcessRequest returned
    last_add,           \* what the last add_bill_to_qb call did
    write_log,          \* one entry per finished add_bill_to_qb call
    qb_added,           \* the BillAdd requests QuickBooks accepted
    saved,              \* what save_comparison_report wrote (<<>> = nothing)
    error               \* the exception that ended main.py ("" = none)

vars == <<pc, workbook, ledger, excel_rows, qb_bills, comparison_report, idx,
          spc, qbxml, open_conns, sessions, com_calls, pending, raw_response,
          last_add, write_log, qb_added, saved, error>>

-----------------------------------------------------------------------------
(* Bounds *)

\* longest input list handed to compare_bills
MaxLen == 2

\* most data rows in the spreadsheet
MaxRows == 2

-----------------------------------------------------------------------------
(* Generic helpers *)

SeqUpTo(S, n) == UNION {[1..k -> S] : k \in 0..n}

Range(s) == {s[i] : i \in DOMAIN s}

Perms(S) == {o \in [1..Cardinality(S) -> S] : \A i, j \in DOMAIN o : o[i] = o[j] => i = j}

Digits == <<"0", "1", "2", "3", "4", "5", "6", "7", "8", "9">>

RECURSIVE NatStr(_)
NatStr(n) == IF n < 10 THEN Digits[n + 1]
             ELSE NatStr(n \div 10) \o Digits[(n % 10) + 1]

\* str(x) of a float x = cents/100: the shortest repr, always with a fraction
PyStrFloat(cents) ==
    LET a == IF cents < 0 THEN -cents ELSE cents
        f == a % 100
    IN (IF cents < 0 THEN "-" ELSE "") \o NatStr(a \div 100) \o "."
       \o (IF f % 10 = 0 THEN Digits[(f \div 10) + 1]
           ELSE Digits[(f \div 10) + 1] \o Digits[(f % 10) + 1])

\* f"{x:.2f}"
PyFormat2f(cents) ==
    LET a == IF cents < 0 THEN -cents ELSE cents
        f == a % 100
    IN (IF cents < 0 THEN "-" ELSE "") \o NatStr(a \div 100) \o "."
       \o Digits[(f \div 10) + 1] \o Digits[(f % 10) + 1]

\* ", ".join(labels)
RECURSIVE Join(_)
Join(labels) == IF Len(labels) = 0 THEN ""
                ELSE IF Len(labels) = 1 THEN labels[1]
                ELSE labels[1] \o ", " \o Join(Tail(labels))

-----------------------------------------------------------------------------
(* models.py *)

BillRecord(record_id, supplier, bank_date, chart_account, amount, memo, line_memo, source) ==
    [record_id |-> record_id, supplier |-> supplier, bank_date |-> bank_date,
     chart_account |-> chart_account, amount |-> amount, memo |-> memo,
     line_memo |-> line_memo, source |-> source, added_to_qb |-> FALSE]

Conflict(record_id, excel_name, qb_name, reason) ==
    [record_id |-> record_id, excel_name |-> excel_name, qb_name |-> qb_name,
     reason |-> reason]

ComparisonReport(excel_only, qb_only, conflicts) ==
    [excel_only |-> excel_only, qb_only |-> qb_only, conflicts |-> conflicts]

-----------------------------------------------------------------------------
(* comparer.py *)

\* {bill.record_id: bill for bill in bills}: a later record replaces an earlier one
IndexFirstWins(bills) ==
    [id \in {bills[i].record_id : i \in DOMAIN bills} |->
        bills[CHOOSE i \in DOMAIN bills : /\ bills[i].record_id = id
                                          /\ \A j \in DOMAIN bills :
                                                bills[j].record_id = id => i <= j]]

IndexById(bills) ==
    [id \in {bills[i].record_id : i \in DOMAIN bills} |->
        bills[CHOOSE i \in DOMAIN bills : /\ bills[i].record_id = id
                                          /\ \A j \in DOMAIN bills :
                                                bills[j].record_id = id => j <= i]]

\* if excel_bill and not qb_bill
IsExcelOnlyIgnoringQb(excel_dict, qb_dict, record_id) ==
    record_id \in DOMAIN excel_dict

IsExcelOnly(excel_dict, qb_dict, record_id) ==
    record_id \in DOMAIN excel_dict /\ record_id \notin DOMAIN qb_dict

\* elif qb_bill and not excel_bill
IsQbOnly(excel_dict, qb_dict, record_id) ==
    record_id \in DOMAIN qb_dict /\ record_id \notin DOMAIN excel_dict

\* Parent vs memo
MemoRuleUnguarded(excel_bill, qb_bill) ==
    excel_bill.memo # qb_bill.memo

MemoRuleExcelSideOnly(excel_bill, qb_bill) ==
    excel_bill.line_memo = "" /\ excel_bill.memo # qb_bill.memo

MemoRule(excel_bill, qb_bill) ==
    /\ excel_bill.line_memo = ""
    /\ qb_bill.line_memo = ""
    /\ excel_bill.memo # qb_bill.memo

\* Child vs line_memo
LineMemoRuleUnguarded(excel_bill, qb_bill) ==
    excel_bill.line_memo # qb_bill.line_memo

LineMemoRule(excel_bill, qb_bill) ==
    /\ excel_bill.line_memo # ""
    /\ qb_bill.line_memo # ""
    /\ excel_bill.line_memo # qb_bill.line_memo

SupplierRule(excel_bill, qb_bill) ==
    excel_bill.supplier # qb_bill.supplier

AmountRuleElif(excel_bill, qb_bill) ==
    /\ excel_bill.supplier = qb_bill.supplier
    /\ PyStrFloat(excel_bill.amount) # PyStrFloat(qb_bill.amount)

AmountRule(excel_bill, qb_bill) ==
    PyStrFloat(excel_bill.amount) # PyStrFloat(qb_bill.amount)

ChartAccountRule(excel_bill, qb_bill) ==
    excel_bill.chart_account # qb_bill.chart_account

mismatch_fields(excel_bill, qb_bill) ==
    (IF MemoRule(excel_bill, qb_bill) THEN <<"Memo mismatch">> ELSE <<>>)
    \o (IF LineMemoRule(excel_bill, qb_bill) THEN <<"LineMemo mismatch">> ELSE <<>>)
    \o (IF SupplierRule(excel_bill, qb_bill) THEN <<"Supplier/Vendor mismatch">> ELSE <<>>)
    \o (IF AmountRule(excel_bill, qb_bill) THEN <<"Amount mismatch">> ELSE <<>>)
    \o (IF ChartAccountRule(excel_bill, qb_bill) THEN <<"ChartAccount mismatch">> ELSE <<>>)

\* one pass of "for record_id in all_ids" over the ids order[k..]
RECURSIVE CompareLoop(_, _, _, _, _)
CompareLoop(excel_dict, qb_dict, order, k, report) ==
    IF k > Len(order) THEN report
    ELSE
        LET record_id == order[k]
            next ==
                IF IsExcelOnly(excel_dict, qb_dict, record_id)
                THEN [report EXCEPT !.excel_only = Append(@, excel_dict[record_id])]
                ELSE IF IsQbOnly(excel_dict, qb_dict, record_id)
                THEN [report EXCEPT !.qb_only = Append(@, qb_dict[record_id])]
                ELSE IF record_id \in DOMAIN excel_dict /\ record_id \in DOMAIN qb_dict
                THEN LET fields == mismatch_fields(excel_dict[record_id], qb_dict[record_id])
                     IN IF Len(fields) > 0
                        THEN [report EXCEPT !.conflicts =
                                 Append(@, Conflict(record_id, excel_dict[record_id],
                                                    qb_dict[record_id], Join(fields)))]
                        ELSE report
                ELSE report
        IN CompareLoop(excel_dict, qb_dict, order, k + 1, next)

\* the ids of both dicts: all_ids
AllIds(e_bills, q_bills) ==
    DOMAIN IndexById(e_bills) \cup DOMAIN IndexById(q_bills)

\* compare_bills, with the iteration order of the set all_ids given as order
compare_bills(e_bills, q_bills, order) ==
    CompareLoop(IndexById(e_bills), IndexById(q_bills), order, 1,
                ComparisonReport(<<>>, <<>>, <<>>))

-----------------------------------------------------------------------------
(* excel_reader.py *)

\* str.strip() for blanks
Strip(s) ==
    LET kept == {i \in 1..Len(s) : SubSeq(s, i, i) # " "}
    IN IF kept = {} THEN ""
       ELSE SubSeq(s, CHOOSE i \in kept : \A j \in kept : i <= j,
                      CHOOSE i \in kept : \A j \in kept : j <= i)

\* if not any(row)
RowIsEmpty(row) ==
    /\ row.parent_id = "" /\ row.child_id = "" /\ row.supplier = ""
    /\ row.comments = "" /\ row.amount = 0 /\ row.bank_date = ""
    /\ row.chart_account = ""

\* the record of one data row; <<>> when the row is skipped
RowRecord(row) ==
    LET parent_id == Strip(row.parent_id)
        child_id == Strip(row.child_id)
        memo == Strip(row.comments)
        record_id == IF child_id # "" THEN child_id ELSE parent_id
    IN IF RowIsEmpty(row) \/ record_id = "" THEN <<>>
       ELSE <<BillRecord(record_id, Strip(row.supplier), Strip(row.bank_date),
                         Strip(row.chart_account), row.amount, memo, memo, "excel")>>

\* read_excel_data on a readable sheet with its required columns
RECURSIVE read_excel_data(_)
read_excel_data(rows) ==
    IF Len(rows) = 0 THEN <<>>
    ELSE RowRecord(Head(rows)) \o read_excel_data(Tail(rows))

-----------------------------------------------------------------------------
(* qb_gateway.py *)

\* str.replace(old, new) for a one-character old, from position i on
RECURSIVE ReplaceFrom(_, _, _, _)
ReplaceFrom(s, i, old, new) ==
    IF i > Len(s) THEN ""
    ELSE (IF SubSeq(s, i, i) = old THEN new ELSE SubSeq(s, i, i))
         \o ReplaceFrom(s, i + 1, old, new)

\* the five replace calls, each on the result of the one before
_escape_xml(value) ==
    CHOOSE r \in
        {ReplaceFrom(v4, 1, "'", "&apos;") : v4 \in
        {ReplaceFrom(v3, 1, "\"", "&quot;") : v3 \in
        {ReplaceFrom(v2, 1, ">", "&gt;") : v2 \in
        {ReplaceFrom(v1, 1, "<", "&lt;") : v1 \in
        {ReplaceFrom(v0, 1, "&", "&amp;") : v0 \in {value}}}}}} : TRUE

\* _parse_response: the exception it raises, "" when it returns root
ParseError(raw) ==
    IF ~raw.has_status THEN "QuickBooks response missing status information"
    ELSE IF raw.status_code \notin {0, 1}
         THEN "QuickBooks error (" \o NatStr(raw.status_code) \o "): " \o raw.status_message
         ELSE ""

\* what QuickBooks can answer to a request
Responses(request) ==
    {[has_status |-> FALSE, status_code |-> 0, status_message |-> "", bills |-> <<>>],
     [has_status |-> TRUE, status_code |-> 3120, status_message |-> "Object not found",
      bills |-> <<>>]}
    \cup (IF request.kind = "BillQueryRq"
          THEN {IF ledger = <<>>
                THEN [has_status |-> TRUE, status_code |-> 1,
                      status_message |-> "No match", bills |-> <<>>]
                ELSE [has_status |-> TRUE, status_code |-> 0,
                      status_message |-> "Status OK", bills |-> ledger]}
          ELSE {[has_status |-> TRUE, status_code |-> 0,
                 status_message |-> "Status OK", bills |-> <<>>]})

SendVars == <<spc, open_conns, sessions, com_calls, pending, raw_response, qb_added>>

NotSendVars == <<pc, workbook, ledger, excel_rows, qb_bills, comparison_report, idx,
                 qbxml, last_add, write_log, saved, error>>

\* session = win32com.client.Dispatch("QBXMLRP2.RequestProcessor")
Dispatch ==
    /\ spc = "Dispatch"
    /\ \E ok \in BOOLEAN :
          IF ok THEN spc' = "OpenConnection2" /\ pending' = ""
          ELSE spc' = "raised" /\ pending' = "Invalid class string"
    /\ UNCHANGED <<open_conns, sessions, com_calls, raw_response, qb_added>>
    /\ UNCHANGED NotSendVars

\* session.OpenConnection2("", APP_NAME, 1)
OpenConnection2 ==
    /\ spc = "OpenConnection2"
    /\ com_calls' = Append(com_calls, "OpenConnection2")
    /\ \E ok \in BOOLEAN :
          IF ok THEN spc' = "BeginSession" /\ open_conns' = open_conns + 1 /\ pending' = ""
          ELSE spc' = "raised" /\ open_conns' = open_conns
               /\ pending' = "Could not start QuickBooks"
    /\ UNCHANGED <<sessions, raw_response, qb_added>>
    /\ UNCHANGED NotSendVars

\* ticket = session.BeginSession("", 0), before the try
BeginSession ==
    /\ spc = "BeginSession"
    /\ com_calls' = Append(com_calls, "BeginSession")
    /\ \E ok \in BOOLEAN :
          IF ok THEN spc' = "ProcessRequest" /\ sessions' = sessions + 1 /\ pending' = ""
          ELSE spc' = "raised" /\ sessions' = sessions
               /\ pending' = "No company file is open"
    /\ UNCHANGED <<open_conns, raw_response, qb_added>>
    /\ UNCHANGED NotSendVars

\* raw_response = session.ProcessRequest(ticket, qbxml), inside the try
ProcessRequest ==
    /\ spc = "ProcessRequest"
    /\ com_calls' = Append(com_calls, "ProcessRequest")
    /\ \/ /\ spc' = "EndSession"
          /\ pending' = "The RPC server is unavailable"
          /\ UNCHANGED <<raw_response, qb_added>>
       \/ \E resp \in Responses(qbxml) :
             /\ raw_response' = resp
             /\ qb_added' = IF qbxml.kind = "BillAddRq" /\ ParseError(resp) = ""
                            THEN Append(qb_added, qbxml) ELSE qb_added
             /\ spc' = "_parse_response"
             /\ pending' = ""
    /\ UNCHANGED <<open_conns, sessions>>
    /\ UNCHANGED NotSendVars

\* return _parse_response(raw_response), inside the try
ParseResponse ==
    /\ spc = "_parse_response"
    /\ com_calls' = Append(com_calls, "_parse_response")
    /\ pending' = ParseError(raw_response)
    /\ spc' = "EndSession"
    /\ UNCHANGED <<open_conns, sessions, raw_response, qb_added>>
    /\ UNCHANGED NotSendVars

\* finally: session.EndSession(ticket)
EndSession ==
    /\ spc = "EndSession"
    /\ com_calls' = Append(com_calls, "EndSession")
    /\ sessions' = sessions - 1
    /\ spc' = "CloseConnection"
    /\ UNCHANGED <<open_conns, pending, raw_response, qb_added>>
    /\ UNCHANGED NotSendVars

\* finally: session.CloseConnection(); then the return or the exception goes on
CloseConnection ==
    /\ spc = "CloseConnection"
    /\ com_calls' = Append(com_calls, "CloseConnection")
    /\ open_conns' = open_conns - 1
    /\ spc' = IF pending = "" THEN "returned" ELSE "raised"
    /\ UNCHANGED <<sessions, pending, raw_response, qb_added>>
    /\ UNCHANGED NotSendVars

\* the body of _send_qbxml, one COM call at a time
_send_qbxml ==
    \/ Dispatch
    \/ OpenConnection2
    \/ BeginSession
    \/ ProcessRequest
    \/ ParseResponse
    \/ EndSession
    \/ CloseConnection

\* the records of one BillRet: the parent, then one per ExpenseLineRet
RECURSIVE LineRecords(_, _)
LineRecords(bill_ret, lines) ==
    IF Len(lines) = 0 THEN <<>>
    ELSE <<BillRecord(Head(lines).TxnLineID, bill_ret.VendorRef, bill_ret.TxnDate,
                      Head(lines).AccountRef, Head(lines).Amount, bill_ret.Memo,
                      Head(lines).Memo, "quickbooks")>>
         \o LineRecords(bill_ret, Tail(lines))

\* fetch_bills_from_qb, from the parsed response on
RECURSIVE BillsOfRoot(_)
BillsOfRoot(bill_rets) ==
    IF Len(bill_rets) = 0 THEN <<>>
    ELSE LET bill_ret == Head(bill_rets)
         IN <<BillRecord(bill_ret.TxnID, bill_ret.VendorRef, bill_ret.TxnDate, "",
                         bill_ret.AmountDue, bill_ret.Memo, "", "quickbooks")>>
            \o LineRecords(bill_ret, bill_ret.lines)
            \o BillsOfRoot(Tail(bill_rets))

\* add_bill_to_qb, "Validate key fields": the reason to skip the bill, "" when valid
ValidationFailureSupplierOnly(bill) ==
    IF bill.supplier = "" THEN "missing supplier" ELSE ""

ValidationFailure(bill) ==
    IF bill.supplier = "" THEN "missing supplier"
    ELSE IF bill.amount = 0 \/ bill.amount <= 0 THEN "invalid amount"
    ELSE ""

\* str(bill.bank_date).split(" ")[0]
BeforeSpace(s) ==
    LET blanks == {i \in 1..Len(s) : SubSeq(s, i, i) = " "}
    IN IF blanks = {} THEN s
       ELSE SubSeq(s, 1, (CHOOSE i \in blanks : \A j \in blanks : i <= j) - 1)

\* add_bill_to_qb, the request it builds
BillAddRq(bill) ==
    [kind |-> "BillAddRq",
     VendorRef |-> _escape_xml(bill.supplier),
     TxnDate |-> IF bill.bank_date # "" THEN BeforeSpace(bill.bank_date) ELSE "",
     Memo |-> _escape_xml(bill.memo),
     ExpenseLineAdd |->
        IF bill.chart_account # ""
        THEN <<[AccountRef |-> _escape_xml(bill.chart_account),
                Amount |-> PyFormat2f(bill.amount),
                Memo |-> _escape_xml(bill.line_memo)]>>
        ELSE <<>>]

\* add_bill_to_qb when validation skipped the bill: return bill
AddSkipped(bill) ==
    [called |-> TRUE, bill |-> <<bill>>, ret |-> <<bill>>, sent |-> FALSE,
     outcome |-> "skipped", raised |-> ""]

\* add_bill_to_qb after _send_qbxml: the try sets the flag and falls off the end
\* of the function, the except clears the flag and returns the bill
AddSentReraising(bill, ok, exc) ==
    [called |-> TRUE,
     bill |-> <<[bill EXCEPT !.added_to_qb = ok]>>,
     ret |-> <<>>,
     sent |-> TRUE,
     outcome |-> IF ok THEN "added" ELSE "failed",
     raised |-> IF ok THEN "" ELSE exc]

AddSent(bill, ok, exc) ==
    [called |-> TRUE,
     bill |-> <<[bill EXCEPT !.added_to_qb = ok]>>,
     ret |-> IF ok THEN <<>> ELSE <<[bill EXCEPT !.added_to_qb = FALSE]>>,
     sent |-> TRUE,
     outcome |-> IF ok THEN "added" ELSE "failed",
     raised |-> ""]

-----------------------------------------------------------------------------
(* Inputs *)

Ids == {"1", "2", "3"}

\* every combination of the compared fields, on two ids
FullBills(source) ==
    {BillRecord(id, s, "2025-01-15", c, a, m, lm, source) :
        id \in {"1", "2"}, s \in {"Acme", "Acme Corp"}, c \in {"Travel", "Meals"},
        a \in {10000, 10050}, m \in {"", "x"}, lm \in {"", "x", "y"}}

\* two records per id: a parent-level one and a line-level one
SmallBills(source) ==
    {BillRecord(id, "Acme", "2025-01-15", "Travel", 10000, "x", "", source) : id \in Ids}
    \cup {BillRecord(id, "Acme Corp", "2025-01-15", "Travel", 10050, "x", "y", source) : id \in Ids}

EmptyReport == ComparisonReport(<<>>, <<>>, <<>>)

NoAdd == [called |-> FALSE, bill |-> <<>>, ret |-> <<>>, sent |-> FALSE, outcome |-> "",
          raised |-> ""]

\* everything but pc, workbook, ledger, excel_rows and qb_bills, before main.py ran
Untouched ==
    /\ comparison_report = EmptyReport
    /\ idx = 1
    /\ spc = "idle"
    /\ qbxml = [kind |-> "none"]
    /\ open_conns = 0
    /\ sessions = 0
    /\ com_calls = <<>>
    /\ pending = ""
    /\ raw_response = [kind |-> "none"]
    /\ last_add = NoAdd
    /\ write_log = <<>>
    /\ qb_added = <<>>
    /\ saved = <<>>
    /\ error = ""

-----------------------------------------------------------------------------
(* main.py *)

\* Step 3: comparison_report = compare_bills(excel_rows, qb_bills)
Compare ==
    /\ pc = "compare"
    /\ \E order \in Perms(AllIds(excel_rows, qb_bills)) :
          comparison_report' = compare_bills(excel_rows, qb_bills, order)
    /\ pc' = "loop"
    /\ idx' = 1
    /\ UNCHANGED <<workbook, ledger, excel_rows, qb_bills, spc, qbxml, open_conns,
                   sessions, com_calls, pending, raw_response, last_add, write_log,
                   qb_added, saved, error>>

\* Step 1: excel_rows = read_excel_data(excel_file)
ReadExcel ==
    /\ pc = "read"
    /\ IF workbook.error # ""
       THEN pc' = "crashed" /\ error' = workbook.error /\ excel_rows' = excel_rows
       ELSE pc' = "fetch" /\ error' = error /\ excel_rows' = read_excel_data(workbook.rows)
    /\ UNCHANGED <<workbook, ledger, qb_bills, comparison_report, idx, spc, qbxml,
                   open_conns, sessions, com_calls, pending, raw_response, last_add,
                   write_log, qb_added, saved>>

\* Step 2: qb_bills = fetch_bills_from_qb(), up to its call of _send_qbxml
FetchCall ==
    /\ pc = "fetch"
    /\ qbxml' = [kind |-> "BillQueryRq", IncludeLineItems |-> "true"]
    /\ spc' = "Dispatch"
    /\ com_calls' = <<>>
    /\ pc' = "fetch_wait"
    /\ UNCHANGED <<workbook, ledger, excel_rows, qb_bills, comparison_report, idx,
                   open_conns, sessions, pending, raw_response, last_add, write_log,
                   qb_added, saved, error>>

\* Step 2, from the return of _send_qbxml on: an exception ends main.py
FetchReturn ==
    /\ pc = "fetch_wait"
    /\ spc \in {"returned", "raised"}
    /\ IF spc = "raised"
       THEN pc' = "crashed" /\ error' = pending /\ qb_bills' = qb_bills
       ELSE pc' = "compare" /\ error' = error /\ qb_bills' = BillsOfRoot(raw_response.bills)
    /\ spc' = "idle"
    /\ UNCHANGED <<workbook, ledger, excel_rows, comparison_report, idx, qbxml,
                   open_conns, sessions, com_calls, pending, raw_response, last_add,
                   write_log, qb_added, saved>>

\* line 27: bill.added_to_qb = True
MainMark(bill) == [bill EXCEPT !.added_to_qb = TRUE]

\* Step 4, one turn of the loop up to the call of _send_qbxml; a bill that fails
\* validation finishes its turn here
AddBillCall ==
    /\ pc = "loop"
    /\ idx <= Len(comparison_report.excel_only)
    /\ LET bill == comparison_report.excel_only[idx]
       IN IF ValidationFailure(bill) # ""
          THEN /\ last_add' = AddSkipped(bill)
               /\ write_log' = Append(write_log,
                     [record_id |-> bill.record_id, outcome |-> "skipped"])
               /\ comparison_report' =
                     [comparison_report EXCEPT !.excel_only[idx] = MainMark(bill)]
               /\ idx' = idx + 1
               /\ UNCHANGED <<pc, spc, qbxml, com_calls>>
          ELSE /\ qbxml' = BillAddRq(bill)
               /\ spc' = "Dispatch"
               /\ com_calls' = <<>>
               /\ pc' = "add_wait"
               /\ UNCHANGED <<last_add, write_log, comparison_report, idx>>
    /\ UNCHANGED <<workbook, ledger, excel_rows, qb_bills, open_conns, sessions,
                   pending, raw_response, qb_added, saved, error>>

\* Step 4, the rest of the turn: add_bill_to_qb handles what _send_qbxml did and
\* returns, then line 27
AddBillReturn ==
    /\ pc = "add_wait"
    /\ spc \in {"returned", "raised"}
    /\ LET bill == comparison_report.excel_only[idx]
           r == AddSent(bill, spc = "returned", pending)
       IN /\ last_add' = r
          /\ write_log' = Append(write_log,
                [record_id |-> bill.record_id, outcome |-> r.outcome])
          /\ IF r.raised # ""
             THEN /\ pc' = "crashed"
                  /\ error' = r.raised
                  /\ comparison_report' =
                        [comparison_report EXCEPT !.excel_only[idx] = r.bill[1]]
                  /\ idx' = idx
             ELSE /\ pc' = "loop"
                  /\ error' = error
                  /\ comparison_report' =
                        [comparison_report EXCEPT !.excel_only[idx] = MainMark(r.bill[1])]
                  /\ idx' = idx + 1
    /\ spc' = "idle"
    /\ UNCHANGED <<workbook, ledger, excel_rows, qb_bills, qbxml, open_conns, sessions,
                   com_calls, pending, raw_response, qb_added, saved>>

\* the for loop is exhausted
LoopExit ==
    /\ pc = "loop"
    /\ idx > Len(comparison_report.excel_only)
    /\ pc' = "save"
    /\ UNCHANGED <<workbook, ledger, excel_rows, qb_bills, comparison_report, idx, spc,
                   qbxml, open_conns, sessions, com_calls, pending, raw_response,
                   last_add, write_log, qb_added, saved, error>>

\* reporting.save_comparison_report: the report document
SavedReport(report) ==
    [status |-> "success",
     error |-> "",
     excel_only |-> report.excel_only,
     qb_only |-> report.qb_only,
     conflicts |-> report.conflicts,
     summary |-> [total_excel_only |-> Len(report.excel_only),
                  total_qb_only |-> Len(report.qb_only),
                  total_conflicts |-> Len(report.conflicts)]]

\* Step 5: save_comparison_report(comparison_report, report_path)
Save ==
    /\ pc = "save"
    /\ saved' = <<SavedReport(comparison_report)>>
    /\ pc' = "done"
    /\ UNCHANGED <<workbook, ledger, excel_rows, qb_bills, comparison_report, idx, spc,
                   qbxml, open_conns, sessions, com_calls, pending, raw_response,
                   last_add, write_log, qb_added, error>>

-----------------------------------------------------------------------------
(* The run of main.py *)

\* the data rows a sheet can hold
ExcelRowChoices ==
    {[parent_id |-> "P1", child_id |-> c, supplier |-> s, comments |-> "Q1 <rent>",
      amount |-> a, bank_date |-> "2025-01-15 00:00:00", chart_account |-> "Travel"] :
        c \in {"", "L1 "}, s \in {"", "A&B "}, a \in {0, -500, 10000}}
    \cup {[parent_id |-> "", child_id |-> "", supplier |-> "A&B", comments |-> "",
           amount |-> 10000, bank_date |-> "", chart_account |-> ""]}

Workbooks ==
    {[error |-> "Excel file is empty", rows |-> <<>>]}
    \cup {[error |-> "", rows |-> rows] : rows \in SeqUpTo(ExcelRowChoices, MaxRows)}

BillRetP1(lines) ==
    [TxnID |-> "P1", VendorRef |-> "A&B", TxnDate |-> "2025-01-15", DueDate |-> "",
     Memo |-> "Q1 <rent>", AmountDue |-> 10000, lines |-> lines]

Ledgers ==
    {<<>>,
     <<BillRetP1(<<>>)>>,
     <<BillRetP1(<<[TxnLineID |-> "L1", Amount |-> 10000, Memo |-> "Q1 <rent>",
                    AccountRef |-> "Travel"]>>)>>}

Init ==
    /\ pc = "read"
    /\ workbook \in Workbooks
    /\ ledger \in Ledgers
    /\ excel_rows = <<>>
    /\ qb_bills = <<>>
    /\ Untouched

Next ==
    \/ ReadExcel
    \/ FetchCall
    \/ _send_qbxml
    \/ FetchReturn
    \/ Compare
    \/ AddBillCall
    \/ AddBillReturn
    \/ LoopExit
    \/ Save

Spec == Init /\ [][Next]_vars

\* one thread runs main.py to its end: a statement that can run next does run
FairSpec == Spec /\ WF_vars(Next)

-----------------------------------------------------------------------------
(* compare_bills on its own: the two lists are drawn, then compared *)

InitCompare ==
    /\ pc = "compare"
    /\ workbook = [error |-> "", rows |-> <<>>]
    /\ ledger = <<>>
    /\ \/ /\ excel_rows \in SeqUpTo(FullBills("excel"), 1)
          /\ qb_bills \in SeqUpTo(FullBills("quickbooks"), 1)
       \/ /\ excel_rows \in SeqUpTo(SmallBills("excel"), MaxLen)
          /\ qb_bills \in SeqUpTo(SmallBills("quickbooks"), MaxLen)
    /\ Untouched

NextCompare == Compare

SpecCompare == InitCompare /\ [][NextCompare]_vars

-----------------------------------------------------------------------------
(* add_bill_to_qb on its own: one bill is drawn and handed to the loop body *)

\* bills with the XML metacharacters in their text, valid and invalid ones,
\* already marked or not
AddBills ==
    {[BillRecord("P1", s, d, c, a, m, lm, "excel") EXCEPT !.added_to_qb = f] :
        s \in {"", "A&B"}, d \in {"", "2025-01-15 00:00:00", "<TBD>"},
        c \in {"", "R&D \"lab\""}, a \in {0, -500, 10000},
        m \in {"", "Tom's <rent>"}, lm \in {"", "a>b"}, f \in BOOLEAN}

InitAdd ==
    /\ pc = "loop"
    /\ workbook = [error |-> "", rows |-> <<>>]
    /\ ledger = <<>>
    /\ excel_rows \in {<<b>> : b \in AddBills}
    /\ qb_bills = <<>>
    /\ comparison_report = ComparisonReport(excel_rows, <<>>, <<>>)
    /\ idx = 1
    /\ spc = "idle"
    /\ qbxml = [kind |-> "none"]
    /\ open_conns = 0
    /\ sessions = 0
    /\ com_calls = <<>>
    /\ pending = ""
    /\ raw_response = [kind |-> "none"]
    /\ last_add = NoAdd
    /\ write_log = <<>>
    /\ qb_added = <<>>
    /\ saved = <<>>
    /\ error = ""

NextAdd ==
    \/ AddBillCall
    \/ _send_qbxml
    \/ AddBillReturn

SpecAdd == InitAdd /\ [][NextAdd]_vars

-----------------------------------------------------------------------------
(* Properties of compare_bills *)

\* compare_bills has just returned
Compared == pc = "loop" /\ idx = 1

IdsOf(list) == {list[i].record_id : i \in DOMAIN list}

Occurrences(list, id) == Cardinality({i \in DOMAIN list : list[i].record_id = id})

\* the record a list contributes for an id: the last one carrying it
LastOf(list, id) ==
    list[CHOOSE i \in DOMAIN list :
            /\ list[i].record_id = id
            /\ \A j \in DOMAIN list : j > i => list[j].record_id # id]

SharedIds == IdsOf(excel_rows) \cap IdsOf(qb_bills)

ConflictsOf(id) ==
    {i \in DOMAIN comparison_report.conflicts :
        comparison_report.conflicts[i].record_id = id}

AllLabels == <<"Memo mismatch", "LineMemo mismatch", "Supplier/Vendor mismatch",
               "Amount mismatch", "ChartAccount mismatch">>

\* the labels numbered by S, in the fixed order, starting at label k
RECURSIVE LabelsFrom(_, _)
LabelsFrom(S, k) ==
    IF k > Len(AllLabels) THEN <<>>
    ELSE (IF k \in S THEN <<AllLabels[k]>> ELSE <<>>) \o LabelsFrom(S, k + 1)

\* the labels a reason string lists
LabelsIn(reason) ==
    UNION {Range(LabelsFrom(S, 1)) : S \in {T \in SUBSET (1..5) : Join(LabelsFrom(T, 1)) = reason}}

\* the rules of the specification a pair of records violates, by label number
Violated(e, q) ==
    {k \in 1..5 :
        \/ k = 1 /\ e.line_memo = "" /\ q.line_memo = "" /\ e.memo # q.memo
        \/ k = 2 /\ e.line_memo # "" /\ q.line_memo # "" /\ e.line_memo # q.line_memo
        \/ k = 3 /\ e.supplier # q.supplier
        \/ k = 4 /\ e.amount # q.amount
        \/ k = 5 /\ e.chart_account # q.chart_account}

\* C1: every id of the union lands in at most one bucket: an id only in the
\* Excel list is in excel_only exactly once and nowhere else, an id only in the
\* QuickBooks list is in qb_only exactly once and nowhere else, and only an id
\* of both lists can be in conflicts; disjoint id sets give no conflict.
C1_Classification ==
    Compared =>
        LET A == IdsOf(excel_rows)
            B == IdsOf(qb_bills)
            R == comparison_report
        IN /\ \A id \in A \ B :
                /\ Occurrences(R.excel_only, id) = 1
                /\ Occurrences(R.qb_only, id) = 0
                /\ Occurrences(R.conflicts, id) = 0
           /\ \A id \in B \ A :
                /\ Occurrences(R.qb_only, id) = 1
                /\ Occurrences(R.excel_only, id) = 0
                /\ Occurrences(R.conflicts, id) = 0
           /\ \A id \in A \cap B :
                /\ Occurrences(R.excel_only, id) = 0
                /\ Occurrences(R.qb_only, id) = 0
                /\ Occurrences(R.conflicts, id) <= 1
           /\ IdsOf(R.excel_only) \cup IdsOf(R.qb_only) \cup IdsOf(R.conflicts) \subseteq A \cup B
           /\ (A \cap B = {} => R.conflicts = <<>>)

C1_Witness ==
    /\ Compared
    /\ IdsOf(excel_rows) \cap IdsOf(qb_bills) = {}
    /\ Len(comparison_report.excel_only) = 2
    /\ Len(comparison_report.qb_only) = 1

\* C2: a pair of records sharing an id (the last record of each list with that
\* id) with the same supplier, amount and chart account, the same memo when both
\* line_memo are empty and the same line_memo when both are non-empty, gives no
\* conflict for that id, and the id is in neither excel_only nor qb_only.
C2_CleanMatch ==
    Compared =>
        \A id \in SharedIds :
            LET e == LastOf(excel_rows, id)
                q == LastOf(qb_bills, id)
            IN (/\ e.supplier = q.supplier
                /\ e.amount = q.amount
                /\ e.chart_account = q.chart_account
                /\ (e.line_memo = "" /\ q.line_memo = "" => e.memo = q.memo)
                /\ (e.line_memo # "" /\ q.line_memo # "" => e.line_memo = q.line_memo))
               => /\ ConflictsOf(id) = {}
                  /\ Occurrences(comparison_report.excel_only, id) = 0
                  /\ Occurrences(comparison_report.qb_only, id) = 0

\* a clean match of two line-level records whose parent memos differ
C2_Witness ==
    /\ Compared
    /\ \E id \in SharedIds :
          LET e == LastOf(excel_rows, id)
              q == LastOf(qb_bills, id)
          IN /\ e.supplier = q.supplier
             /\ e.amount = q.amount
             /\ e.chart_account = q.chart_account
             /\ e.line_memo # ""
             /\ e.line_memo = q.line_memo
             /\ e.memo # q.memo
             /\ ConflictsOf(id) = {}

\* C3: for an id of both lists the five rules are evaluated independently: the
\* conflict's reason is the labels of exactly the violated rules, in the order
\* Memo, LineMemo, Supplier/Vendor, Amount, ChartAccount, joined by ", ", and
\* there is no conflict when no rule is violated; a difference in the amount
\* alone gives "Amount mismatch", in the supplier alone "Supplier/Vendor mismatch".
C3_ReasonLabels ==
    Compared =>
        \A id \in SharedIds :
            LET e == LastOf(excel_rows, id)
                q == LastOf(qb_bills, id)
                v == Violated(e, q)
            IN /\ (v = {} => ConflictsOf(id) = {})
               /\ (v # {} =>
                     /\ Cardinality(ConflictsOf(id)) = 1
                     /\ \A i \in ConflictsOf(id) :
                           comparison_report.conflicts[i].reason = Join(LabelsFrom(v, 1)))
               /\ (v = {4} => \A i \in ConflictsOf(id) :
                                 comparison_report.conflicts[i].reason = "Amount mismatch")
               /\ (v = {3} => \A i \in ConflictsOf(id) :
                                 comparison_report.conflicts[i].reason = "Supplier/Vendor mismatch")

\* four rules violated at once, all four reported
C3_Witness ==
    /\ Compared
    /\ \E i \in DOMAIN comparison_report.conflicts :
          comparison_report.conflicts[i].reason =
              "Memo mismatch, Supplier/Vendor mismatch, Amount mismatch, ChartAccount mismatch"

\* C4: two records sharing an id, both with an empty line_memo, that differ in
\* memo only give a conflict whose reason is "Memo mismatch"; when either record
\* has a non-empty line_memo there is no "Memo mismatch" label, and a "LineMemo
\* mismatch" label appears only when both line_memo are non-empty and differ.
C4_MemoRules ==
    Compared =>
        \A id \in SharedIds :
            LET e == LastOf(excel_rows, id)
                q == LastOf(qb_bills, id)
                labels == UNION {LabelsIn(comparison_report.conflicts[i].reason) :
                                    i \in ConflictsOf(id)}
            IN /\ (/\ e.line_memo = "" /\ q.line_memo = "" /\ e.memo # q.memo
                   /\ e.supplier = q.supplier /\ e.amount = q.amount
                   /\ e.chart_account = q.chart_account)
                  => /\ ConflictsOf(id) # {}
                     /\ \A i \in ConflictsOf(id) :
                           comparison_report.conflicts[i].reason = "Memo mismatch"
               /\ (e.line_memo # "" \/ q.line_memo # "" => "Memo mismatch" \notin labels)
               /\ ("LineMemo mismatch" \in labels
                      => e.line_memo # "" /\ q.line_memo # "" /\ e.line_memo # q.line_memo)
               /\ ((e.line_memo = "") # (q.line_memo = "")
                      => labels \cap {"Memo mismatch", "LineMemo mismatch"} = {})

\* a parent-level record against a line-level one with another memo: a conflict,
\* with no memo label in it
C4_Witness ==
    /\ Compared
    /\ \E id \in SharedIds :
          LET e == LastOf(excel_rows, id)
              q == LastOf(qb_bills, id)
          IN /\ e.line_memo = ""
             /\ q.line_memo # ""
             /\ e.memo # q.memo
             /\ \E i \in ConflictsOf(id) :
                   comparison_report.conflicts[i].reason = "Supplier/Vendor mismatch"

\* C5: with the two lists swapped, whatever the iteration order, excel_only holds
\* the records qb_only held and qb_only those excel_only held, and the conflicts
\* are on the same ids with the same reason, the two values exchanged.
C5_Symmetry ==
    Compared =>
        \A order \in Perms(AllIds(qb_bills, excel_rows)) :
            LET R == comparison_report
                S == compare_bills(qb_bills, excel_rows, order)
            IN /\ Range(S.excel_only) = Range(R.qb_only)
               /\ Range(S.qb_only) = Range(R.excel_only)
               /\ Len(S.excel_only) = Len(R.qb_only)
               /\ Len(S.qb_only) = Len(R.excel_only)
               /\ Len(S.conflicts) = Len(R.conflicts)
               /\ {Conflict(c.record_id, c.qb_name, c.excel_name, c.reason) :
                       c \in Range(S.conflicts)} = Range(R.conflicts)

C5_Witness ==
    /\ Compared
    /\ Len(comparison_report.excel_only) = 1
    /\ Len(comparison_report.qb_only) = 1
    /\ \E i \in DOMAIN comparison_report.conflicts :
          comparison_report.conflicts[i].reason = "Supplier/Vendor mismatch, Amount mismatch"

-----------------------------------------------------------------------------
(* Properties of the write-back loop and of the run *)

\* the for loop over excel_only is over
LoopDone == pc \in {"save", "done"}

IsPrefix(s, t) == Len(s) <= Len(t) /\ \A i \in DOMAIN s : s[i] = t[i]

\* C6: after the write-back loop a record's added_to_qb is true only if its write
\* to QuickBooks succeeded; a record skipped by validation or whose write failed
\* has added_to_qb false in the report that is saved.
C6_FlagOnlyIfWritten ==
    /\ LoopDone =>
          \A i \in DOMAIN comparison_report.excel_only :
              comparison_report.excel_only[i].added_to_qb
                  => write_log[i].outcome = "added"
    /\ pc = "done" =>
          \A i \in DOMAIN saved[1].excel_only :
              saved[1].excel_only[i].added_to_qb => write_log[i].outcome = "added"

\* C7: add_bill_to_qb returns the record it was given, with added_to_qb true
\* when the write succeeded and false when it did not, and raises nothing for a
\* missing supplier or a missing or non-positive amount.
C7_ReturnsRecordWithFlag ==
    last_add.called =>
        /\ Len(last_add.ret) = 1
        /\ \A i \in DOMAIN last_add.ret :
              /\ last_add.ret[i].record_id = last_add.bill[1].record_id
              /\ last_add.ret[i].added_to_qb = (last_add.outcome = "added")
        /\ (last_add.outcome = "skipped" => last_add.raised = "")

\* C8: the run always ends with a written report: status "error" and the failure
\* message when the spreadsheet read or the QuickBooks fetch failed, a success
\* status otherwise.
C8_AlwaysWritesReport ==
    pc \in {"done", "crashed"} =>
        /\ saved # <<>>
        /\ \A i \in DOMAIN saved :
              IF error # ""
              THEN saved[i].status = "error" /\ saved[i].error = error
              ELSE saved[i].status = "success"

\* a step of the loop does not end the run and takes nothing back
LoopStepKeeps ==
    pc \in {"loop", "add_wait"} =>
        /\ pc' # "crashed"
        /\ IsPrefix(write_log, write_log')
        /\ IsPrefix(qb_added, qb_added')

\* C9: write-backs are independent: a record that is skipped or whose write fails
\* never ends the loop nor takes back what was written before (the log of turns
\* and the requests QuickBooks accepted only grow), every record of excel_only
\* gets its turn, in order, and the run goes on to save the report.
C9_IndependentWrites ==
    /\ [](LoopDone =>
            /\ Len(write_log) = Len(comparison_report.excel_only)
            /\ \A i \in DOMAIN write_log :
                  write_log[i].record_id = comparison_report.excel_only[i].record_id)
    /\ [][LoopStepKeeps]_vars
    /\ (pc = "loop" ~> (pc = "done" /\ saved # <<>>))

\* a write that failed in transport, then the next record written
C9_Witness ==
    /\ pc = "done"
    /\ Len(write_log) = 2
    /\ write_log[1].outcome = "failed"
    /\ write_log[2].outcome = "added"
    /\ Len(qb_added) = 1

\* the COM calls of one exchange are an initial part of this order
ExchangeOrder == <<"OpenConnection2", "BeginSession", "ProcessRequest", "_parse_response",
                   "EndSession", "CloseConnection">>

\* com_calls keeps the order of ExchangeOrder, each call at most once
InExchangeOrder(calls) ==
    \E pos \in [DOMAIN calls -> DOMAIN ExchangeOrder] :
        /\ \A i \in DOMAIN calls : ExchangeOrder[pos[i]] = calls[i]
        /\ \A i, j \in DOMAIN calls : i < j => pos[i] < pos[j]

\* C10: an exchange runs open connection, begin session, send request, parse the
\* status, end session, close connection, in this order; once the connection was
\* opened, the session (if begun) is ended and the connection closed when
\* _send_qbxml returns or raises, whatever failed; status 0 or 1 returns, any
\* other status raises an error carrying the status message.
C10_ExchangeOrderAndCleanup ==
    /\ InExchangeOrder(com_calls)
    /\ spc \in {"returned", "raised"} => open_conns = 0 /\ sessions = 0
    /\ spc = "returned" =>
          /\ com_calls = ExchangeOrder
          /\ raw_response.has_status
          /\ raw_response.status_code \in {0, 1}
    /\ (spc = "raised" /\ Len(com_calls) = Len(ExchangeOrder)) =>
          \/ pending = "QuickBooks response missing status information"
          \/ /\ raw_response.status_code \notin {0, 1}
             /\ pending = "QuickBooks error (3120): " \o raw_response.status_message

-----------------------------------------------------------------------------
(* Properties of add_bill_to_qb *)

\* the supplier is missing or the amount is missing, zero or negative
FailsValidation(bill) == bill.supplier = "" \/ bill.amount <= 0

\* the turn of a bill that fails validation: nothing goes to QuickBooks and the
\* bill comes back as it was
SkippedTurn ==
    (/\ pc = "loop"
     /\ idx <= Len(comparison_report.excel_only)
     /\ FailsValidation(comparison_report.excel_only[idx]))
    => /\ UNCHANGED <<spc, qbxml, com_calls, open_conns, sessions, qb_added>>
       /\ last_add'.called
       /\ ~last_add'.sent
       /\ last_add'.bill = <<comparison_report.excel_only[idx]>>
       /\ last_add'.ret = <<comparison_report.excel_only[idx]>>

\* C11: add_bill_to_qb validates before it writes: for a record without supplier
\* or with a missing, zero or negative amount no request is sent (no connection
\* is opened) and the call leaves the record's added_to_qb as it was; a request
\* is under way only for a record that passed validation.
C11_ValidatesBeforeWrite ==
    /\ [][SkippedTurn]_vars
    /\ [](pc = "add_wait" => ~FailsValidation(comparison_report.excel_only[idx]))
    /\ [](last_add.called /\ last_add.outcome = "skipped"
             => com_calls = <<>> /\ open_conns = 0 /\ qb_added = <<>>)

\* a bill already marked, with a supplier and a negative amount, was skipped and
\* came back marked
C11_Witness ==
    /\ last_add.called
    /\ last_add.outcome = "skipped"
    /\ \E i \in DOMAIN last_add.bill :
          /\ last_add.bill[i].supplier # ""
          /\ last_add.bill[i].amount < 0
          /\ last_add.bill[i].added_to_qb
    /\ com_calls = <<>>

\* one character of text as it must stand in an XML body
XmlChar(c) ==
    IF c = "&" THEN "&amp;"
    ELSE IF c = "<" THEN "&lt;"
    ELSE IF c = ">" THEN "&gt;"
    ELSE IF c = "\"" THEN "&quot;"
    ELSE IF c = "'" THEN "&apos;"
    ELSE c

\* the text from position i on, each metacharacter escaped exactly once
RECURSIVE XmlTextFrom(_, _)
XmlTextFrom(s, i) ==
    IF i > Len(s) THEN "" ELSE XmlChar(SubSeq(s, i, i)) \o XmlTextFrom(s, i + 1)

XmlText(s) == XmlTextFrom(s, 1)

\* the bill whose request is under way
BillInHand == comparison_report.excel_only[idx]

\* C12: in every write request built by add_bill_to_qb each free-text field of
\* the record that is embedded (supplier, memo, line memo, chart account and the
\* date text derived from bank_date) is escaped for the five XML metacharacters,
\* each exactly once, so no raw metacharacter of a field is in the request.
C12_AllTextEscaped ==
    (pc = "add_wait" /\ qbxml.kind = "BillAddRq")
    => /\ qbxml.VendorRef = XmlText(BillInHand.supplier)
       /\ qbxml.Memo = XmlText(BillInHand.memo)
       /\ qbxml.TxnDate = XmlText(BeforeSpace(BillInHand.bank_date))
       /\ \A i \in DOMAIN qbxml.ExpenseLineAdd :
             /\ qbxml.ExpenseLineAdd[i].AccountRef = XmlText(BillInHand.chart_account)
             /\ qbxml.ExpenseLineAdd[i].Memo = XmlText(BillInHand.line_memo)

-----------------------------------------------------------------------------
(* Repeated ids and the order of the run *)

\* the positions of a list that no later position repeats the id of
KeptPositions(list) ==
    {i \in DOMAIN list : \A j \in DOMAIN list : j > i => list[j].record_id # list[i].record_id}

\* the list with every earlier record of a repeated id deleted
Dedupe(list) ==
    LET kept == KeptPositions(list)
    IN [k \in 1..Cardinality(kept) |->
           list[CHOOSE i \in kept : Cardinality({j \in kept : j <= i}) = k]]

\* C13: when an id repeats within one input list compare_bills uses only the
\* last record with that id: the report is the one obtained from the lists with
\* every earlier record of a repeated id deleted, and every record in excel_only
\* and qb_only is the last one its list holds for that id.
C13_LastWriteWins ==
    Compared =>
       /\ \E order \in Perms(IdsOf(excel_rows) \cup IdsOf(qb_bills)) :
             comparison_report =
                compare_bills(Dedupe(excel_rows), Dedupe(qb_bills), order)
       /\ \A i \in DOMAIN comparison_report.excel_only :
             comparison_report.excel_only[i] =
                LastOf(excel_rows, comparison_report.excel_only[i].record_id)
       /\ \A i \in DOMAIN comparison_report.qb_only :
             comparison_report.qb_only[i] =
                LastOf(qb_bills, comparison_report.qb_only[i].record_id)

\* an id is held twice by the spreadsheet list, by two different records, and by
\* the ledger list whose record equals the later one: no conflict is reported
C13_Witness ==
    /\ Compared
    /\ \E i, j \in DOMAIN excel_rows :
          /\ i < j
          /\ excel_rows[i].record_id = excel_rows[j].record_id
          /\ excel_rows[i].supplier # excel_rows[j].supplier
          /\ excel_rows[j].record_id \in IdsOf(qb_bills)
          /\ LastOf(qb_bills, excel_rows[j].record_id).supplier = excel_rows[j].supplier
          /\ ConflictsOf(excel_rows[j].record_id) = {}
    /\ Len(Dedupe(excel_rows)) < Len(excel_rows)

\* the ids of a list of records, in its order
IdSeq(list) == [i \in DOMAIN list |-> list[i].record_id]

\* read_excel_data has returned the rows of the workbook
ReadCompleted ==
    /\ pc # "read"
    /\ workbook.error = ""
    /\ excel_rows = read_excel_data(workbook.rows)

\* fetch_bills_from_qb has returned the bills of an accepted answer and has left
\* no session behind
FetchCompleted ==
    /\ pc \notin {"read", "fetch", "fetch_wait"}
    /\ spc = "idle"
    /\ sessions = 0

\* compare_bills has returned: the report is its result for the two lists, up
\* to the flags the loop sets on excel_only
ComparisonReturned ==
    /\ pc \in {"loop", "add_wait", "save", "done"}
    /\ \E order \in Perms(AllIds(excel_rows, qb_bills)) :
          LET report == compare_bills(excel_rows, qb_bills, order)
          IN /\ comparison_report.qb_only = report.qb_only
             /\ comparison_report.conflicts = report.conflicts
             /\ IdSeq(comparison_report.excel_only) = IdSeq(report.excel_only)

\* the ids a write-back was attempted for so far, in the order of the attempts
Attempted ==
    IdSeq(write_log) \o (IF pc = "add_wait" THEN <<BillInHand.record_id>> ELSE <<>>)

\* the order of the run, as far as one state shows it
RunInOrder ==
    /\ pc \in {"fetch", "fetch_wait"}
          => ReadCompleted /\ comparison_report = EmptyReport
    /\ (pc = "fetch_wait" \/ qbxml.kind = "BillQueryRq") => ReadCompleted
    /\ pc = "compare"
          => /\ ReadCompleted
             /\ FetchCompleted
             /\ qb_bills = BillsOfRoot(raw_response.bills)
             /\ ParseError(raw_response) = ""
    /\ pc \in {"read", "fetch", "fetch_wait", "compare"}
          => Attempted = <<>> /\ qb_added = <<>> /\ qbxml.kind # "BillAddRq"
    /\ (Attempted # <<>> \/ qb_added # <<>> \/ qbxml.kind = "BillAddRq")
          => ReadCompleted /\ ComparisonReturned
    /\ IsPrefix(Attempted, IdSeq(comparison_report.excel_only))
    /\ \A i \in DOMAIN Attempted :
          /\ Attempted[i] \in IdsOf(excel_rows)
          /\ Attempted[i] \notin IdsOf(qb_bills)
          /\ Attempted[i] \notin IdsOf(comparison_report.qb_only)
          /\ Attempted[i] \notin IdsOf(comparison_report.conflicts)
          /\ \A j \in DOMAIN Attempted : Attempted[j] = Attempted[i] => j = i
    /\ Len(qb_added) <= Len(write_log) + (IF pc = "add_wait" THEN 1 ELSE 0)
    /\ LoopDone => IdSeq(write_log) = IdSeq(comparison_report.excel_only)
    /\ saved # <<>>
          => /\ pc = "done"
             /\ spc = "idle"
             /\ IdSeq(write_log) = IdSeq(comparison_report.excel_only)
             /\ saved = <<SavedReport(comparison_report)>>

\* one step of the run: nothing flows back into the inputs, the comparison is
\* made once, and the saved report is the end of the writes
RunOneWay ==
    /\ workbook' = workbook
    /\ ledger' = ledger
    /\ pc # "read" => excel_rows' = excel_rows
    /\ pc \notin {"fetch", "fetch_wait"} => qb_bills' = qb_bills
    /\ pc # "compare" =>
          /\ comparison_report'.qb_only = comparison_report.qb_only
          /\ comparison_report'.conflicts = comparison_report.conflicts
          /\ IdSeq(comparison_report'.excel_only) = IdSeq(comparison_report.excel_only)
    /\ IsPrefix(write_log, write_log')
    /\ saved # <<>> => UNCHANGED <<write_log, qb_added, com_calls, saved>>

\* C14: the run is strictly sequential and one-way: the spreadsheet read
\* completes before the QuickBooks fetch, both complete before the comparison,
\* no write-back is attempted before the comparison has returned, a write-back
\* is attempted exactly once for each record of excel_only and never for an id
\* that QuickBooks holds (qb_only, conflicts, clean matches), and the report is
\* saved only after all write-back attempts have finished.
C14_SequentialOneWay == []RunInOrder /\ [][RunOneWay]_vars

\* a finished run: a write-back was attempted for the one id only the
\* spreadsheet holds, none for the id both sides hold, and the report is saved
C14_Witness ==
    /\ pc = "done"
    /\ saved # <<>>
    /\ Len(write_log) = 1
    /\ SharedIds # {}
    /\ IdsOf(excel_rows) \ IdsOf(qb_bills) = {write_log[1].record_id}

====
